---- MODULE Spec2Model ----
(***************************************************************************)
(* Model of scripts/visibility_score.py: the script loads the visibility   *)
(* report (a JSON list of probe records), applies its fourteen rubric      *)
(* statements in order, and writes and prints the summary.                 *)
(***************************************************************************)
EXTENDS Integers, Sequences, FiniteSets, TLC

VARIABLES
    artifact,    \* artifacts/visibility_report.json: "missing", "garbled" or "list"
    data,        \* the loaded report (line 5)
    pc,          \* the line the script is about to execute
    score,       \* line 20
    sub,         \* line 21
    failures,    \* line 22
    summary,     \* line 64: <<>> until built, then <<the summary>>
    scoreFile,   \* artifacts/visibility_score.txt: <<>> until written
    stdout,      \* what the script printed
    exitCode     \* -1 while running, then the process exit status

vars == <<artifact, data, pc, score, sub, failures, summary, scoreFile, stdout, exitCode>>

-----------------------------------------------------------------------------
(* JSON values as Python sees them after json.loads, tagged by type.       *)

JNone == [t |-> "none"]
JInt(n) == [t |-> "int", v |-> n]
JBool(b) == [t |-> "bool", v |-> b]
JStr(s) == [t |-> "str", v |-> s]

\* The empty dict {}.
EmptyRec == [k \in {} |-> JNone]

\* dict.get(key): JNone when the key is absent.
Get(e, key) == IF key \in DOMAIN e THEN e[key] ELSE JNone

\* e.get("url", ""): the url string, "" when the key is absent.
GetUrl(e) == IF "url" \in DOMAIN e THEN e["url"].v ELSE ""

\* str.endswith.
EndsWith(u, s) ==
    /\ Len(u) >= Len(s)
    /\ SubSeq(u, Len(u) - Len(s) + 1, Len(u)) = s

\* Python's == between a JSON value and the integer n (True == 1, False == 0).
EqInt(x, n) ==
    CASE x.t = "int" -> x.v = n
      [] x.t = "bool" -> (IF x.v THEN 1 ELSE 0) = n
      [] OTHER -> FALSE

\* Python's "x is True".
IsTrue(x) == x.t = "bool" /\ x.v

\* Python truthiness of a JSON value.
Truthy(x) ==
    CASE x.t = "none" -> FALSE
      [] x.t = "bool" -> x.v
      [] x.t = "int" -> x.v # 0
      [] x.t = "str" -> x.v # ""
      [] OTHER -> FALSE

-----------------------------------------------------------------------------
(* Lines 7-18: the lookups.  The script's functions read the global data;  *)
(* here the report is the first parameter.                                 *)

\* Faulty variant: the last matching record instead of the first.
RECURSIVE entryBack(_, _, _)
entryBack(d, url_suffix, i) ==
    IF i < 1 THEN EmptyRec
    ELSE IF EndsWith(GetUrl(d[i]), url_suffix) THEN d[i]
    ELSE entryBack(d, url_suffix, i - 1)

entry_LastMatch(d, url_suffix) == entryBack(d, url_suffix, Len(d))

RECURSIVE entryFrom(_, _, _)
entryFrom(d, url_suffix, i) ==
    IF i > Len(d) THEN EmptyRec
    ELSE IF EndsWith(GetUrl(d[i]), url_suffix) THEN d[i]
    ELSE entryFrom(d, url_suffix, i + 1)

entry(d, url_suffix) == entryFrom(d, url_suffix, 1)

check(d, url_suffix) == EqInt(Get(entry(d, url_suffix), "status"), 200)

\* Faulty variant: the match field ignored.
check_flag_OkOnly(d, flag_name) == IsTrue(Get(entry(d, flag_name), "ok"))

check_flag(d, flag_name) ==
    LET e == entry(d, flag_name)
    IN  IsTrue(Get(e, "ok")) \/ IsTrue(Get(e, "match"))

-----------------------------------------------------------------------------
(* Lines 20-62: the scoring pass.  A scoring state is the triple of the    *)
(* script's accumulators; each rubric statement maps it to the next one.   *)

\* Lines 20-22.
Start == [score |-> 0,
          sub |-> [agent |-> 0, ai |-> 0, crawl |-> 0, authority |-> 0],
          failures |-> <<>>]

\* Faulty variants of Award: the message put first; the category left out; nothing
\* appended once a failure is recorded.
Award_Prepend(st, cond, pts, cat, msg) ==
    IF cond
    THEN [st EXCEPT !.score = @ + pts, !.sub[cat] = @ + pts]
    ELSE [st EXCEPT !.failures = <<msg>> \o @]

Award_ScoreOnly(st, cond, pts, cat, msg) ==
    IF cond
    THEN [st EXCEPT !.score = @ + pts]
    ELSE [st EXCEPT !.failures = Append(@, msg)]

Award_FirstFailureOnly(st, cond, pts, cat, msg) ==
    IF cond
    THEN [st EXCEPT !.score = @ + pts, !.sub[cat] = @ + pts]
    ELSE IF st.failures = <<>> THEN [st EXCEPT !.failures = Append(@, msg)] ELSE st

\* "if cond: score += pts; sub[cat] += pts / else: failures.append(msg)".
Award(st, cond, pts, cat, msg) ==
    IF cond
    THEN [st EXCEPT !.score = @ + pts, !.sub[cat] = @ + pts]
    ELSE [st EXCEPT !.failures = Append(@, msg)]

\* A) Agent/tool discoverability
L25(d, st) ==
    Award(st, check_flag(d, "__check__/mcp_registry_link"),
          10, "agent", "MCP registry link missing from /ai")

L27(d, st) ==
    Award(st, check(d, "/mcp"), 10, "agent", "MCP endpoint not reachable")

L29(d, st) ==
    Award(st, check(d, "/openapi.json") /\ check_flag(d, "__check__/openapi_match"),
          10, "agent", "OpenAPI mismatch or missing")

L31(d, st) ==
    Award(st, check(d, "/.well-known/ai-plugin.json")
                /\ check_flag(d, "__check__/ai_plugin_ok"),
          10, "agent", "AI plugin manifest missing or invalid")

\* B) AI ingestion friendliness
L35(d, st) ==
    Award(st, check_flag(d, "__check__/llms_required"),
          10, "ai", "llms.txt missing required entries")

\* Faulty variant: ten points for the llms-full.txt size rule.
L37_DoublePoints(d, st) ==
    Award(st, check_flag(d, "__check__/llms_full_size"),
          10, "ai", "llms-full.txt too large")

L37(d, st) ==
    Award(st, check_flag(d, "__check__/llms_full_size"),
          5, "ai", "llms-full.txt too large")

md_ok(d) ==
    \A u \in {"/docs.md", "/docs/api.md", "/docs/agent/mcp-quickstart.md",
              "/status.md", "/providers.md"} : check(d, u)

L40(d, st) == Award(st, md_ok(d), 10, "ai", "Markdown mirrors missing")

L42_DoublePoints(d, st) == Award(st, check(d, "/rss.xml"), 10, "ai", "RSS missing")

L42(d, st) == Award(st, check(d, "/rss.xml"), 5, "ai", "RSS missing")

\* C) Crawl/index readiness
L46(d, st) ==
    Award(st, check(d, "/robots.txt") /\ check_flag(d, "__check__/robots_rules"),
          5, "crawl", "robots.txt rules missing")

L48(d, st) ==
    Award(st, check(d, "/sitemap.xml") /\ check_flag(d, "__check__/sitemap_contains"),
          5, "crawl", "sitemap missing key URLs")

\* Faulty variant: has_text read with a default of True.
text_ok_DefaultTrue(d) ==
    \A u \in {"/", "/ai", "/docs", "/providers", "/status"} :
        LET e == entry(d, u)
        IN  IF "has_text" \in DOMAIN e THEN Truthy(e["has_text"]) ELSE TRUE

text_ok(d) ==
    \A u \in {"/", "/ai", "/docs", "/providers", "/status"} :
        Truthy(Get(entry(d, u), "has_text"))

L51(d, st) == Award(st, text_ok(d), 5, "crawl", "SSR text missing on public pages")

canon_ok(d) ==
    \A u \in {"/ai", "/docs", "/providers", "/status"} :
        Truthy(Get(entry(d, u), "canonical"))

L54(d, st) == Award(st, canon_ok(d), 5, "crawl", "Canonical tags missing")

\* D) Authority footprint readiness
L58(d, st) ==
    Award(st, check(d, "/incidents") /\ check(d, "/datasets"),
          5, "authority", "Incidents or datasets pages missing")

L61(d, st) ==
    LET cite_entry == entry(d, "/cite")
    IN  Award(st, DOMAIN cite_entry # {} /\ EqInt(Get(cite_entry, "status"), 200),
              5, "authority", "Incident cite endpoint missing")

\* Line 64.
MkSummary(st) == [total |-> st.score, subscores |-> st.sub, failures |-> st.failures]

\* The whole pass, lines 20-64, as a function of the loaded report.
ScoringPass(d) ==
    MkSummary(
      L61(d, L58(d, L54(d, L51(d, L48(d, L46(d, L42(d, L40(d, L37(d, L35(d,
      L31(d, L29(d, L27(d, L25(d, Start)))))))))))))))

-----------------------------------------------------------------------------
(* The reports the script is run on: the complete, passing probe records  *)
(* of no rubric category, of one, or of all four, with up to MaxExtra      *)
(* arbitrary probe records from RecordPool placed before and after them.   *)

MaxExtra == 1

Page(u) == [url |-> JStr(u), status |-> JInt(200), has_text |-> JBool(TRUE),
            canonical |-> JStr("https://site.test/c")]
Path(u) == [url |-> JStr(u), status |-> JInt(200)]
FlagOk(u) == [url |-> JStr(u), ok |-> JBool(TRUE)]
FlagMatch(u) == [url |-> JStr(u), match |-> JBool(TRUE)]

AgentBlock ==
    << FlagOk("__check__/mcp_registry_link"), Path("https://site.test/mcp"),
       Path("https://site.test/openapi.json"), FlagMatch("__check__/openapi_match"),
       Path("https://site.test/.well-known/ai-plugin.json"),
       FlagOk("__check__/ai_plugin_ok") >>

AiBlock ==
    << FlagOk("__check__/llms_required"), FlagOk("__check__/llms_full_size"),
       Path("/docs.md"), Path("/docs/api.md"), Path("/docs/agent/mcp-quickstart.md"),
       Path("/status.md"), Path("/providers.md"), Path("/rss.xml") >>

CrawlBlock ==
    << Path("/robots.txt"), FlagOk("__check__/robots_rules"),
       Path("/sitemap.xml"), FlagMatch("__check__/sitemap_contains"),
       Page("https://site.test/"), Page("https://site.test/ai"),
       Page("https://site.test/docs"), Page("https://site.test/providers"),
       Page("https://site.test/status") >>

AuthorityBlock ==
    << Path("/incidents"), Path("/datasets"), Path("/incidents/abc/cite") >>

Categories == {"agent", "ai", "crawl", "authority"}

TailOf(cats) ==
    (IF "agent" \in cats THEN AgentBlock ELSE <<>>)
    \o (IF "ai" \in cats THEN AiBlock ELSE <<>>)
    \o (IF "crawl" \in cats THEN CrawlBlock ELSE <<>>)
    \o (IF "authority" \in cats THEN AuthorityBlock ELSE <<>>)

\* Optional fields: a set of one-field records, the empty record for "absent".
Opt(key, vals) == {EmptyRec} \cup {[k \in {key} |-> x] : x \in vals}

\* Dict union of two records with disjoint keys.
Merge(a, b) == [k \in DOMAIN a \cup DOMAIN b |-> IF k \in DOMAIN a THEN a[k] ELSE b[k]]

StatusRecords ==
    { Merge([url |-> JStr(u)], s) :
        u \in {"/mcp", "/x/mcp", "/cite"},
        s \in Opt("status", {JInt(200), JInt(404)}) }

FlagRecords ==
    { Merge([url |-> JStr("__check__/mcp_registry_link")], Merge(o, m)) :
        o \in Opt("ok", {JBool(TRUE), JBool(FALSE)}),
        m \in Opt("match", {JBool(TRUE), JBool(FALSE)}) }

PageRecords ==
    { Merge([url |-> JStr("/ai")], Merge(h, c)) :
        h \in Opt("has_text", {JBool(TRUE), JBool(FALSE)}),
        c \in Opt("canonical", {JStr("https://site.test/c"), JBool(FALSE)}) }

OtherRecords ==
    { EmptyRec,
      [status |-> JInt(200)],
      [url |-> JStr("/other"), status |-> JInt(200)],
      [url |-> JStr("/status.md"), status |-> JInt(200)],
      [url |-> JStr("/status.md"), status |-> JInt(404)],
      [url |-> JStr("/openapi.json"), status |-> JInt(404)],
      [url |-> JStr("https://site.test/"), has_text |-> JBool(FALSE)],
      [url |-> JStr("/ai"), has_text |-> JBool(TRUE), canonical |-> JStr("")] }

RecordPool == StatusRecords \cup FlagRecords \cup PageRecords \cup OtherRecords

RecordSeqs(n) == [1..n -> RecordPool]

\* The records placed before and after: at most MaxExtra in all.
Extras ==
    UNION { RecordSeqs(i) \X RecordSeqs(j) :
              <<i, j>> \in {y \in (0..MaxExtra) \X (0..MaxExtra) : y[1] + y[2] <= MaxExtra} }

TailChoices == {cats \in SUBSET Categories : Cardinality(cats) \in {0, 1, 4}}

Reports ==
    { x[1] \o TailOf(cats) \o x[2] : x \in Extras, cats \in TailChoices }

-----------------------------------------------------------------------------
(* The script as a state machine, one action per statement.                *)

Init ==
    /\ artifact \in {"missing", "garbled", "list"}
    /\ data = <<>>
    /\ pc = "L5"
    /\ score = 0
    /\ sub = [agent |-> 0, ai |-> 0, crawl |-> 0, authority |-> 0]
    /\ failures = <<>>
    /\ summary = <<>>
    /\ scoreFile = <<>>
    /\ stdout = <<>>
    /\ exitCode = -1

\* Line 5, report present and well-formed: json.loads yields the list.
LoadList ==
    /\ pc = "L5"
    /\ artifact = "list"
    /\ \E r \in Reports : data' = r
    /\ pc' = "L25"
    /\ UNCHANGED <<artifact, score, sub, failures, summary, scoreFile, stdout, exitCode>>

\* Line 5, report_path.exists() is false: data = [].
LoadMissing ==
    /\ pc = "L5"
    /\ artifact = "missing"
    /\ data' = <<>>
    /\ pc' = "L25"
    /\ UNCHANGED <<artifact, score, sub, failures, summary, scoreFile, stdout, exitCode>>

\* Faulty variant: the parse error swallowed, the report taken as empty.
LoadGarbled_AsEmpty ==
    /\ pc = "L5"
    /\ artifact = "garbled"
    /\ data' = <<>>
    /\ pc' = "L25"
    /\ UNCHANGED <<artifact, score, sub, failures, summary, scoreFile, stdout, exitCode>>

\* Line 5, the file exists but json.loads raises: the uncaught exception
\* ends the interpreter with status 1.
LoadGarbled ==
    /\ pc = "L5"
    /\ artifact = "garbled"
    /\ pc' = "raised"
    /\ exitCode' = 1
    /\ UNCHANGED <<artifact, data, score, sub, failures, summary, scoreFile, stdout>>

Cur == [score |-> score, sub |-> sub, failures |-> failures]

\* One rubric statement: the accumulators become st and control moves on.
Step(st, next) ==
    /\ score' = st.score
    /\ sub' = st.sub
    /\ failures' = st.failures
    /\ pc' = next
    /\ UNCHANGED <<artifact, data, summary, scoreFile, stdout, exitCode>>

Rule1 ==
    /\ pc = "L25"
    /\ Step(L25(data, Cur), "L27")

Rule2 ==
    /\ pc = "L27"
    /\ Step(L27(data, Cur), "L29")

Rule3 ==
    /\ pc = "L29"
    /\ Step(L29(data, Cur), "L31")

Rule4 ==
    /\ pc = "L31"
    /\ Step(L31(data, Cur), "L35")

Rule5 ==
    /\ pc = "L35"
    /\ Step(L35(data, Cur), "L37")

Rule6 ==
    /\ pc = "L37"
    /\ Step(L37(data, Cur), "L40")

Rule7 ==
    /\ pc = "L40"
    /\ Step(L40(data, Cur), "L42")

Rule8 ==
    /\ pc = "L42"
    /\ Step(L42(data, Cur), "L46")

Rule9 ==
    /\ pc = "L46"
    /\ Step(L46(data, Cur), "L48")

Rule10 ==
    /\ pc = "L48"
    /\ Step(L48(data, Cur), "L51")

Rule11 ==
    /\ pc = "L51"
    /\ Step(L51(data, Cur), "L54")

Rule12 ==
    /\ pc = "L54"
    /\ Step(L54(data, Cur), "L58")

Rule13 ==
    /\ pc = "L58"
    /\ Step(L58(data, Cur), "L61")

Rule14 ==
    /\ pc = "L61"
    /\ Step(L61(data, Cur), "L64")

\* Line 64.
Summarise ==
    /\ pc = "L64"
    /\ summary' = <<MkSummary(Cur)>>
    /\ pc' = "L66"
    /\ UNCHANGED <<artifact, data, score, sub, failures, scoreFile, stdout, exitCode>>

\* Lines 65-66.
WriteScore ==
    /\ pc = "L66"
    /\ scoreFile' = summary
    /\ pc' = "L67"
    /\ UNCHANGED <<artifact, data, score, sub, failures, summary, stdout, exitCode>>

\* Line 67, then the end of the script: exit status 0.
PrintScore ==
    /\ pc = "L67"
    /\ stdout' = stdout \o summary
    /\ pc' = "done"
    /\ exitCode' = 0
    /\ UNCHANGED <<artifact, data, score, sub, failures, summary, scoreFile>>

Next ==
    \/ LoadList \/ LoadMissing \/ LoadGarbled
    \/ Rule1 \/ Rule2 \/ Rule3 \/ Rule4 \/ Rule5 \/ Rule6 \/ Rule7
    \/ Rule8 \/ Rule9 \/ Rule10 \/ Rule11 \/ Rule12 \/ Rule13 \/ Rule14
    \/ Summarise \/ WriteScore \/ PrintScore

Spec == Init /\ [][Next]_vars

-----------------------------------------------------------------------------
(* The rubric as the specification states it: fourteen rules, each with a  *)
(* category, a point value, a predicate over find / isReachable /          *)
(* isFlagged, and a failure message.                                       *)

Done == pc = "done"

RubricMessages ==
    << "MCP registry link missing from /ai",
       "MCP endpoint not reachable",
       "OpenAPI mismatch or missing",
       "AI plugin manifest missing or invalid",
       "llms.txt missing required entries",
       "llms-full.txt too large",
       "Markdown mirrors missing",
       "RSS missing",
       "robots.txt rules missing",
       "sitemap missing key URLs",
       "SSR text missing on public pages",
       "Canonical tags missing",
       "Incidents or datasets pages missing",
       "Incident cite endpoint missing" >>

RubricPoints == <<10, 10, 10, 10, 10, 5, 10, 5, 5, 5, 5, 5, 5, 5>>

RubricCategory ==
    << "agent", "agent", "agent", "agent", "ai", "ai", "ai", "ai",
       "crawl", "crawl", "crawl", "crawl", "authority", "authority" >>

RuleIds == 1..14

\* Indices of the records whose url ends with the suffix.
Matching(d, suffix) ==
    {i \in 1..Len(d) : "url" \in DOMAIN d[i] /\ EndsWith(d[i]["url"].v, suffix)}

\* The first record whose url ends with the suffix, the empty record if none.
find(d, suffix) ==
    LET m == Matching(d, suffix)
    IN  IF m = {} THEN EmptyRec ELSE d[CHOOSE i \in m : \A j \in m : i <= j]

FieldIs(e, key, x) == key \in DOMAIN e /\ e[key] = x

FieldTruthy(e, key) ==
    key \in DOMAIN e /\ e[key] \notin {JNone, JBool(FALSE), JInt(0), JStr("")}

isReachable(d, suffix) == FieldIs(find(d, suffix), "status", JInt(200))

isFlagged(d, suffix) ==
    \/ FieldIs(find(d, suffix), "ok", JBool(TRUE))
    \/ FieldIs(find(d, suffix), "match", JBool(TRUE))

RubricHolds(d) ==
    << isFlagged(d, "__check__/mcp_registry_link"),
       isReachable(d, "/mcp"),
       isReachable(d, "/openapi.json") /\ isFlagged(d, "__check__/openapi_match"),
       isReachable(d, "/.well-known/ai-plugin.json")
         /\ isFlagged(d, "__check__/ai_plugin_ok"),
       isFlagged(d, "__check__/llms_required"),
       isFlagged(d, "__check__/llms_full_size"),
       /\ isReachable(d, "/docs.md")
       /\ isReachable(d, "/docs/api.md")
       /\ isReachable(d, "/docs/agent/mcp-quickstart.md")
       /\ isReachable(d, "/status.md")
       /\ isReachable(d, "/providers.md"),
       isReachable(d, "/rss.xml"),
       isReachable(d, "/robots.txt") /\ isFlagged(d, "__check__/robots_rules"),
       isReachable(d, "/sitemap.xml") /\ isFlagged(d, "__check__/sitemap_contains"),
       /\ FieldTruthy(find(d, "/"), "has_text")
       /\ FieldTruthy(find(d, "/ai"), "has_text")
       /\ FieldTruthy(find(d, "/docs"), "has_text")
       /\ FieldTruthy(find(d, "/providers"), "has_text")
       /\ FieldTruthy(find(d, "/status"), "has_text"),
       /\ FieldTruthy(find(d, "/ai"), "canonical")
       /\ FieldTruthy(find(d, "/docs"), "canonical")
       /\ FieldTruthy(find(d, "/providers"), "canonical")
       /\ FieldTruthy(find(d, "/status"), "canonical"),
       isReachable(d, "/incidents") /\ isReachable(d, "/datasets"),
       Matching(d, "/cite") # {} /\ FieldIs(find(d, "/cite"), "status", JInt(200)) >>

\* The points of the rules among 1..n that hold and belong to `cats`.
RubricPointsOf(h, cats) ==
    LET S[i \in 0..14] ==
          IF i = 0 THEN 0
          ELSE S[i - 1] + (IF h[i] /\ RubricCategory[i] \in cats
                           THEN RubricPoints[i] ELSE 0)
    IN  S[14]

\* The messages of the rules that do not hold, in rubric order.
RubricFailures(h) ==
    LET F[i \in 0..14] ==
          IF i = 0 THEN <<>>
          ELSE IF h[i] THEN F[i - 1] ELSE Append(F[i - 1], RubricMessages[i])
    IN  F[14]

RubricSummary(d) ==
    LET h == RubricHolds(d)
    IN  [total |-> RubricPointsOf(h, Categories),
         subscores |-> [agent |-> RubricPointsOf(h, {"agent"}),
                        ai |-> RubricPointsOf(h, {"ai"}),
                        crawl |-> RubricPointsOf(h, {"crawl"}),
                        authority |-> RubricPointsOf(h, {"authority"})],
         failures |-> RubricFailures(h)]

-----------------------------------------------------------------------------
\* C1: for every report the summary the script produces equals the summary of
\* the 14-rule rubric (each rule adds its points to total and to its category
\* iff its predicate holds, and otherwise appends its message); the report
\* [{url:'/mcp', status:200}] gives total 10, agent 10 and 13 failures; a report
\* whose first record ending in '/cite' has status 404 fails rule 14.
C1_SummaryIsRubric ==
    Done =>
      /\ summary[1] = RubricSummary(data)
      /\ scoreFile = summary
      /\ stdout = summary
      /\ data = <<[url |-> JStr("/mcp"), status |-> JInt(200)]>> =>
           /\ summary[1].total = 10
           /\ summary[1].subscores = [agent |-> 10, ai |-> 0, crawl |-> 0, authority |-> 0]
           /\ Len(summary[1].failures) = 13
           /\ \A k \in 1..13 : summary[1].failures[k] # RubricMessages[2]
      /\ FieldIs(find(data, "/cite"), "status", JInt(404)) =>
           \E k \in 1..Len(summary[1].failures) :
               summary[1].failures[k] = "Incident cite endpoint missing"

C1_Witness ==
    /\ Done
    /\ data = <<[url |-> JStr("/mcp"), status |-> JInt(200)]>>
    /\ summary[1].total = 10

-----------------------------------------------------------------------------
Untouched ==
    /\ score = 0
    /\ failures = <<>>
    /\ summary = <<>>
    /\ scoreFile = <<>>
    /\ stdout = <<>>

EmptySummary ==
    [total |-> 0,
     subscores |-> [agent |-> 0, ai |-> 0, crawl |-> 0, authority |-> 0],
     failures |-> RubricMessages]

\* C2 as claimed: when the report artifact does not exist or cannot be parsed
\* the run aborts before scoring: no rule is evaluated, no summary is written
\* or printed, and the exit status is non-zero.
C2_AbortsWhenUnavailable ==
    artifact \in {"missing", "garbled"} =>
      /\ pc \in {"L5", "raised"}
      /\ Untouched
      /\ exitCode # 0

\* C2 amended: an unparseable report aborts the run before scoring (no rule
\* evaluated, nothing written or printed, exit status non-zero); a missing
\* report is scored as the empty report, whose summary (total 0, all 14
\* messages) is written and printed, with exit status 0.
C2_AbortsOnlyWhenUnparseable ==
    /\ artifact = "garbled" =>
         /\ pc \in {"L5", "raised"}
         /\ Untouched
         /\ exitCode # 0
         /\ pc = "raised" => exitCode > 0
    /\ artifact = "missing" =>
         /\ pc # "raised"
         /\ Done => /\ summary = <<EmptySummary>>
                    /\ scoreFile = summary
                    /\ stdout = summary
                    /\ exitCode = 0

C2_Witness == artifact = "garbled" /\ pc = "raised" /\ exitCode = 1

-----------------------------------------------------------------------------
RequiredPaths ==
    {"/mcp", "/openapi.json", "/.well-known/ai-plugin.json", "/docs.md",
     "/docs/api.md", "/docs/agent/mcp-quickstart.md", "/status.md",
     "/providers.md", "/rss.xml", "/robots.txt", "/sitemap.xml", "/incidents",
     "/datasets", "/cite"}

RequiredChecks ==
    {"__check__/mcp_registry_link", "__check__/openapi_match",
     "__check__/ai_plugin_ok", "__check__/llms_required",
     "__check__/llms_full_size", "__check__/robots_rules",
     "__check__/sitemap_contains"}

PagePaths == {"/", "/ai", "/docs", "/providers", "/status"}

\* Every required path and check id is present; every record ending with a
\* required path has status 200; every record ending with a required check id
\* has ok or match true; the record matched for each page has has_text and
\* canonical set.
AllGood(d) ==
    /\ \A s \in RequiredPaths :
         /\ Matching(d, s) # {}
         /\ \A i \in Matching(d, s) : FieldIs(d[i], "status", JInt(200))
    /\ \A s \in RequiredChecks :
         /\ Matching(d, s) # {}
         /\ \A i \in Matching(d, s) :
              FieldIs(d[i], "ok", JBool(TRUE)) \/ FieldIs(d[i], "match", JBool(TRUE))
    /\ \A s \in PagePaths :
         /\ Matching(d, s) # {}
         /\ FieldTruthy(find(d, s), "has_text")
         /\ FieldTruthy(find(d, s), "canonical")

\* C3: a report in which everything the rubric asks for is present and good
\* scores total 100, subscores 40/30/20/10 and no failures.
C3_PerfectReport ==
    (Done /\ AllGood(data)) =>
      summary[1] = [total |-> 100,
                    subscores |-> [agent |-> 40, ai |-> 30, crawl |-> 20,
                                   authority |-> 10],
                    failures |-> <<>>]

C3_Witness ==
    /\ Done
    /\ AllGood(data)
    /\ Cardinality(Matching(data, "/mcp")) = 2
    /\ scoreFile[1].total = 100

-----------------------------------------------------------------------------
\* C4: the empty report scores total 0, all four subscores 0, and failures is
\* the 14 rubric messages, each once, in rubric order.
C4_EmptyReport ==
    (Done /\ data = <<>>) =>
      /\ summary[1].total = 0
      /\ DOMAIN summary[1].subscores = Categories
      /\ \A c \in Categories : summary[1].subscores[c] = 0
      /\ summary[1].failures = RubricMessages
      /\ summary[1].failures[1] = "MCP registry link missing from /ai"
      /\ summary[1].failures[14] = "Incident cite endpoint missing"

C4_Witness ==
    /\ Done
    /\ artifact = "list"
    /\ data = <<>>
    /\ Len(scoreFile[1].failures) = 14

-----------------------------------------------------------------------------
SubTotal(s) == s["agent"] + s["ai"] + s["crawl"] + s["authority"]

\* C5: at every point of the scoring pass, and in the summary, total equals
\* the sum of the four subscores.
C5_TotalIsSumOfSubscores ==
    /\ score = SubTotal(sub)
    /\ summary # <<>> => summary[1].total = SubTotal(summary[1].subscores)
    /\ scoreFile # <<>> => scoreFile[1].total = SubTotal(scoreFile[1].subscores)

C5_Witness ==
    /\ pc = "L64"
    /\ sub["agent"] = 40
    /\ sub["authority"] = 5
    /\ score = 45

-----------------------------------------------------------------------------
InRange(total, s) ==
    /\ DOMAIN s = Categories
    /\ s["agent"] \in 0..40
    /\ s["ai"] \in 0..30
    /\ s["crawl"] \in 0..20
    /\ s["authority"] \in 0..10
    /\ total \in 0..100

\* C6: subscores always has exactly the keys agent, ai, crawl, authority, with
\* agent <= 40, ai <= 30, crawl <= 20, authority <= 10, and total is in 0..100.
C6_KeysAndMaxima ==
    /\ InRange(score, sub)
    /\ summary # <<>> => InRange(summary[1].total, summary[1].subscores)
    /\ scoreFile # <<>> => InRange(scoreFile[1].total, scoreFile[1].subscores)

C6_Witness ==
    /\ Done
    /\ summary[1].subscores = [agent |-> 0, ai |-> 30, crawl |-> 0, authority |-> 0]
    /\ summary[1].total = 30

-----------------------------------------------------------------------------
RuleLines ==
    << "L25", "L27", "L29", "L31", "L35", "L37", "L40", "L42", "L46", "L48",
       "L51", "L54", "L58", "L61" >>

\* Whether the script's i-th rubric statement awards its points on report d.
PassesRule(i, d) ==
    LET st == CASE i = 1 -> L25(d, Start) [] i = 2 -> L27(d, Start)
                [] i = 3 -> L29(d, Start) [] i = 4 -> L31(d, Start)
                [] i = 5 -> L35(d, Start) [] i = 6 -> L37(d, Start)
                [] i = 7 -> L40(d, Start) [] i = 8 -> L42(d, Start)
                [] i = 9 -> L46(d, Start) [] i = 10 -> L48(d, Start)
                [] i = 11 -> L51(d, Start) [] i = 12 -> L54(d, Start)
                [] i = 13 -> L58(d, Start) [] OTHER -> L61(d, Start)
    IN  st.score > 0

\* The rubric messages of the rules in `failed`, in rubric order.
MessagesOf(failed) ==
    LET F[i \in 0..14] ==
          IF i = 0 THEN <<>>
          ELSE IF i \in failed THEN Append(F[i - 1], RubricMessages[i]) ELSE F[i - 1]
    IN  F[14]

NextLine(k) == IF k < 14 THEN RuleLines[k + 1] ELSE "L64"

\* What the statement at a rule's line does: it either adds the rule's points
\* or appends the rule's message, and control moves to the next rule.
C7_RuleStep ==
    \A k \in RuleIds :
      pc = RuleLines[k] =>
        /\ pc' = NextLine(k)
        /\ \/ score' = score + RubricPoints[k] /\ failures' = failures
           \/ score' = score /\ failures' = Append(failures, RubricMessages[k])

C7_AtEnd ==
    Done =>
      LET passed == {i \in RuleIds : PassesRule(i, data)}
      IN  /\ summary[1].failures = MessagesOf(RuleIds \ passed)
          /\ Cardinality(passed) + Len(summary[1].failures) = 14
          /\ \A a, b \in 1..Len(summary[1].failures) :
               summary[1].failures[a] = summary[1].failures[b] => a = b

\* C7: every one of the 14 rules is evaluated (a failing rule hands control to
\* the next rule, never to the end), and failures is the subsequence of the
\* rubric messages of the rules that failed: one entry per failed rule, none
\* twice, in rubric order, so passed rules + len(failures) = 14.
C7_AllRulesReported == []C7_AtEnd /\ [][C7_RuleStep]_vars

C7_Witness ==
    /\ Done
    /\ PassesRule(2, data)
    /\ Len(summary[1].failures) = 13
    /\ summary[1].failures[1] = RubricMessages[1]
    /\ summary[1].failures[2] = RubricMessages[3]
    /\ summary[1].failures[13] = RubricMessages[14]

-----------------------------------------------------------------------------
QueriedSuffixes == RequiredPaths \cup RequiredChecks \cup PagePaths

Range(f) == {f[i] : i \in DOMAIN f}

\* C8: entry returns, for every queried suffix, the record with the smallest
\* index whose url ends with the suffix (the empty record if none), so of two
\* records ending with '/mcp' the earlier one alone decides rule 2.
C8_FirstMatch ==
    Done =>
      /\ \A s \in QueriedSuffixes : entry(data, s) = find(data, s)
      /\ RubricMessages[2] \in Range(summary[1].failures)
           <=> ~ FieldIs(find(data, "/mcp"), "status", JInt(200))

C8_Witness ==
    /\ Done
    /\ \E i, j \in Matching(data, "/mcp") :
         /\ i < j
         /\ FieldIs(data[i], "status", JInt(404))
         /\ FieldIs(data[j], "status", JInt(200))
    /\ RubricMessages[2] \in Range(scoreFile[1].failures)

-----------------------------------------------------------------------------
ProbeFields == {"status", "ok", "match", "has_text", "canonical"}

\* Present but false: a status other than 200, a false flag.
FalseLike(key, x) == IF key = "status" THEN x # JInt(200) ELSE x = JBool(FALSE)

\* The record with its false fields left out.
DropFalse(e) ==
    [k \in {f \in DOMAIN e : ~ (f \in ProbeFields /\ FalseLike(f, e[f]))} |-> e[k]]

\* The record with its absent fields present and false.
FillFalse(e) ==
    [k \in DOMAIN e \cup ProbeFields |->
        IF k \in DOMAIN e THEN e[k]
        ELSE IF k = "status" THEN JInt(404) ELSE JBool(FALSE)]

AllDropped(d) == [i \in 1..Len(d) |-> DropFalse(d[i])]
AllFilled(d) == [i \in 1..Len(d) |-> FillFalse(d[i])]

Without(d, i) == SubSeq(d, 1, i - 1) \o SubSeq(d, i + 1, Len(d))

\* Record i has a url and nothing else, and is the only record matching the
\* queried suffix its url ends with.
SoleBlankMatch(d, i) ==
    /\ DOMAIN d[i] = {"url"}
    /\ \E s \in QueriedSuffixes : Matching(d, s) = {i}

\* C9: a field that is absent and a field that is present but false (a status
\* that is not 200) give the same summary: the report, the report with every
\* false field removed and the report with every absent field set false score
\* alike; so do a report whose only match for a suffix is a record with no
\* fields and the report without that record; and no such report raises.
C9_AbsentIsFalse ==
    artifact = "list" =>
      /\ pc # "raised"
      /\ Done =>
           /\ exitCode = 0
           /\ ScoringPass(AllDropped(data)) = summary[1]
           /\ ScoringPass(AllFilled(data)) = summary[1]
           /\ \A i \in 1..Len(data) :
                SoleBlankMatch(data, i) => ScoringPass(Without(data, i)) = summary[1]

C9_Witness ==
    /\ Done
    /\ artifact = "list"
    /\ summary[1].total = 40
    /\ \E i \in 1..Len(data) :
         /\ FieldIs(data[i], "ok", JBool(FALSE))
         /\ "match" \notin DOMAIN data[i]
    /\ AllDropped(data) # data

-----------------------------------------------------------------------------
RECURSIVE IsSubseq(_, _)
IsSubseq(a, b) ==
    IF a = <<>> THEN TRUE
    ELSE IF b = <<>> THEN FALSE
    ELSE IF Head(a) = Head(b) THEN IsSubseq(Tail(a), Tail(b))
    ELSE IsSubseq(a, Tail(b))

\* No score falls and no failure appears from `before` to `after`.
Monotone(before, after) ==
    /\ after.total >= before.total
    /\ \A c \in Categories : after.subscores[c] >= before.subscores[c]
    /\ IsSubseq(after.failures, before.failures)

Front(d) == SubSeq(d, 1, Len(d) - 1)

\* C10: appending a record to a report never lowers the total or a subscore
\* and never adds a failure: the summary of R followed by r is monotone over
\* the summary of R.  (Putting a record in front of R can lower the total: the
\* witness is such a report.)
C10_AppendMonotone ==
    (Done /\ data # <<>>) => Monotone(ScoringPass(Front(data)), summary[1])

C10_Witness ==
    /\ Done
    /\ Len(data) >= 2
    /\ ScoringPass(Front(data)).total < summary[1].total
    /\ ScoringPass(Tail(data)).total > summary[1].total

====
